---- MODULE Spec2Model ----
(***************************************************************************)
(* Batched packet forwarding between two TUN devices (package tun).        *)
(*                                                                         *)
(* Two lanes (directions) are modelled: lane 1 forwards tun11 -> tun22,    *)
(* lane 2 forwards tun22 -> tun11.  A run uses one strategy for both       *)
(* lanes:                                                                  *)
(*   "direct"    forward() of unnamed/part_000 (returns on a read error)   *)
(*   "direct_v1" forward() of unnamed/part_001 (continues on a read error) *)
(*   "channel"   readToChannel / writeFromChannel of unnamed/part_000,     *)
(*               with or without the shared sync.Pool                      *)
(*                                                                         *)
(* Bytes are tokens: byte p of the k-th packet returned by the source of   *)
(* lane l is Token(l, k, p); 0 is a byte of a freshly made buffer.  The    *)
(* numeric constants of the program are scaled down (128 -> 2 and so on)   *)
(* keeping their order: offset < mtuSize + offset < maxPktSize.            *)
(***************************************************************************)
EXTENDS Integers, Sequences, FiniteSets, TLC

\* ---------------------------------------------------------------- constants

\* batchSize = 128 in the source, scaled.
batchSize == 2

\* offset = 10 in the source, scaled.
offset == 1

\* mtuSize = 1500 in the source, scaled.
mtuSize == 2

\* the 65535 of maxPktSize = 65535 + offset, scaled.
maxIPSize == 3

maxPktSize == maxIPSize + offset

\* make(chan packet, 2048), scaled.
chanCap == 1

\* bufLen of forward() in part_000: mtuSize + offset.
bufLen == mtuSize + offset

\* bufLen of forward() in part_001: 65535 + offset.
bufLen_v1 == maxIPSize + offset

\* Bound of the model: packets the two source devices return in a run.
MaxPkts == 2

Lanes == 1..2

\* Identities of the packet buffers of the channel pipeline (heap objects).
BufId == 1..MaxPkts

Slots == 1..batchSize

\* ---------------------------------------------------------------- helpers

Min(a, b) == IF a < b THEN a ELSE b

Token(l, k, p) == 100 * l + 10 * k + p

\* make([]byte, c): c zero bytes.
make(c) == [i \in 1..c |-> 0]

\* b[:m]
Slice(b, m) == SubSeq(b, 1, m)

\* copy(dst, src): min(len(dst), len(src)) bytes of src over the head of dst.
copy(dst, src) ==
    [i \in 1..Len(dst) |-> IF i <= Len(src) THEN src[i] ELSE dst[i]]

RECURSIVE Flatten(_)
Flatten(ss) == IF ss = << >> THEN << >> ELSE Head(ss) \o Flatten(Tail(ss))

IsPrefix(s, t) == Len(s) <= Len(t) /\ SubSeq(t, 1, Len(s)) = s

Range(s) == {s[i] : i \in DOMAIN s}

\* ---------------------------------------------------------------- state

VARIABLES
    mode,         \* strategy of the run
    useChannel,   \* Run's useChannel argument
    usePool,      \* Run's usePool argument
    run_pc,       \* Run: the lane whose tasks are started next (3: all started)
    poolSet,      \* packetBufferPool != nil
    poolFree,     \* items stored in the sync.Pool: buffer -> number of copies
    mem,          \* heap: contents of the packet buffers, << >> when not allocated
    r_pc,         \* forward / readToChannel: position of the task
    r_usePool,    \* readToChannel: local usePool
    bufs,         \* forward: bufs, readToChannel: readBufs (backing arrays)
    blen,         \* len of each of those slices
    sizes,        \* sizes
    r_n,          \* n of the last Read
    r_i,          \* readToChannel: loop index i (0-based)
    pktBuf,       \* readToChannel: pktBuf of the loop pass under way (0: none)
    ch,           \* the channel's queue of packet{buf, size}
    closed,       \* the channel has been closed
    w_pc,         \* writeFromChannel: position of the task
    w_usePool,    \* writeFromChannel: local usePool
    w_bufs,       \* writeFromChannel: bufs[:n], each a slice {buf, len}
    originalBufs, \* writeFromChannel: originalBufs[:n]
    w_i,          \* writeFromChannel: index of the Put loop (0-based)
    readLog,      \* history: what src.Read returned, packet by packet, in order
    handed,       \* history: the batches passed to dst.Write, in order
    errSeen,      \* history: src.Read has returned an error
    ioAfterErr,   \* history: a device call was issued after a read error
    tries,        \* history: non-blocking receives of the current batch
    deqLog,       \* history: the packets received for the current batch, in order
    deqCount,     \* history: number of packets received from the channel
    putLog,       \* history: buffers Put since the last dst.Write
    wFailed,      \* history: the latest dst.Write of the run returned an error or
                  \* a short count
    srcDev,       \* the device each lane's tasks were started with as src (0: none)
    dstDev,       \* the device each lane's tasks were started with as dst (0: none)
    fallbackBufs, \* history: live buffers made by readToChannel's fallback
    pktData       \* readFromTun (normal_tun): pktData of the loop pass under way

cfgVars == <<mode, useChannel, usePool>>
devVars == <<srcDev, dstDev>>
poolVars == <<poolSet, poolFree>>
readerVars == <<r_pc, r_usePool, bufs, blen, sizes, r_n, r_i, pktBuf>>
writerVars == <<w_pc, w_usePool, w_bufs, originalBufs, w_i>>
histVars == <<readLog, handed, errSeen, ioAfterErr, tries, deqLog, deqCount,
             putLog, wFailed>>
vars == <<cfgVars, devVars, run_pc, poolVars, mem, readerVars, ch, closed,
          writerVars, histVars, fallbackBufs, pktData>>

\* ---------------------------------------------------------------- Device

TotalRead == Len(readLog[1]) + Len(readLog[2])

\* The size vectors one Read can return into slices of the given lengths:
\* n = Len(sz) packets, 0 <= n <= batchSize, packet i within its slice and
\* within the MTU the device was created with (CreateTUN(name, mtuSize)).
ReadResults(lens) ==
    { sz \in UNION { [1..k -> 1..mtuSize] :
                        k \in 0..Min(batchSize, MaxPkts - TotalRead) } :
        \A i \in DOMAIN sz : sz[i] + offset <= lens[i] }

\* Bytes [0, size+offset) of slot i after the Read: the k-th packet of lane l.
DeviceFill(buf, l, k, m) ==
    [p \in 1..Len(buf) |-> IF p <= m THEN Token(l, k, p - 1) ELSE buf[p]]

\* The backing arrays after a Read that returned sz.
BufsAfterRead(l, sz) ==
    [i \in Slots |->
        IF i <= Len(sz)
        THEN DeviceFill(bufs[l][i], l, Len(readLog[l]) + i, sz[i] + offset)
        ELSE bufs[l][i]]

\* The Device truncates each filled slice to the bytes read plus the offset.
LensAfterRead(lens, sz) ==
    [i \in Slots |-> IF i <= Len(sz) THEN sz[i] + offset ELSE lens[i]]

SizesAfterRead(l, sz) ==
    [i \in Slots |-> IF i <= Len(sz) THEN sz[i] ELSE sizes[l][i]]

\* What a Read returned, per packet: the backing array of its slot and the
\* size reported in sizes.
Returned(l, sz) ==
    [i \in 1..Len(sz) |-> [buf |-> BufsAfterRead(l, sz)[i], size |-> sz[i]]]

\* The packet of a Read result: bytes [0, size+offset) of the slot.
PacketOf(e) == Slice(e.buf, e.size + offset)

\* Outcomes of dst.Write: all accepted, fewer accepted, or an error.
WriteOutcomes == {"ok", "short", "err"}

\* ---------------------------------------------------------------- Init

\* Before Run starts a task: no task exists, nothing has been read or written.
InitTasks ==
    /\ run_pc = 1
    /\ r_pc = [l \in Lanes |-> "off"]
    /\ r_usePool = [l \in Lanes |-> FALSE]
    /\ bufs = [l \in Lanes |-> [i \in Slots |-> << >>]]
    /\ blen = [l \in Lanes |-> [i \in Slots |-> 0]]
    /\ sizes = [l \in Lanes |-> [i \in Slots |-> 0]]
    /\ r_n = [l \in Lanes |-> 0]
    /\ r_i = [l \in Lanes |-> 0]
    /\ pktBuf = [l \in Lanes |-> 0]
    /\ ch = [l \in Lanes |-> << >>]
    /\ closed = [l \in Lanes |-> FALSE]
    /\ w_pc = [l \in Lanes |-> "off"]
    /\ w_usePool = [l \in Lanes |-> FALSE]
    /\ w_bufs = [l \in Lanes |-> << >>]
    /\ originalBufs = [l \in Lanes |-> << >>]
    /\ w_i = [l \in Lanes |-> 0]
    /\ readLog = [l \in Lanes |-> << >>]
    /\ handed = [l \in Lanes |-> << >>]
    /\ errSeen = [l \in Lanes |-> FALSE]
    /\ ioAfterErr = [l \in Lanes |-> FALSE]
    /\ tries = [l \in Lanes |-> 0]
    /\ deqLog = [l \in Lanes |-> << >>]
    /\ deqCount = [l \in Lanes |-> 0]
    /\ putLog = [l \in Lanes |-> << >>]
    /\ wFailed = FALSE
    /\ srcDev = [l \in Lanes |-> 0]
    /\ dstDev = [l \in Lanes |-> 0]
    /\ fallbackBufs = {}
    /\ pktData = [l \in Lanes |-> << >>]

Init ==
    /\ mode \in {"direct", "direct_v1", "channel"}
    /\ useChannel = (mode = "channel")
    /\ usePool \in (IF useChannel THEN BOOLEAN ELSE {FALSE})
    /\ poolSet = FALSE
    /\ poolFree = [b \in BufId |-> 0]
    /\ mem = [b \in BufId |-> << >>]
    /\ InitTasks

\* ---------------------------------------------------------------- Run

\* Both calls are given tun1 as src and tun2 as dst.
Run_src_same(l) == 1

\* The src argument of the l-th call of Run: tun1 (1), then tun2 (2).
Run_src(l) == l

\* The dst argument of the l-th call of Run: tun2, then tun1.
Run_dst(l) == 3 - l

\* The second call is not given the switch.
Run_usePoolArg_firstOnly(l) == IF l = 1 THEN usePool ELSE FALSE

\* The usePool argument of the l-th forwardWithChannel call of Run.
Run_usePoolArg(l) == usePool

\* go forward(src, dst): bufs[i] = make([]byte, maxPktSize) (part_000) or
\* make([]byte, bufLen) (part_001); the task starts at the top of its loop.
Run_goForward(l) ==
    /\ ~useChannel
    /\ run_pc = l
    /\ run_pc' = l + 1
    /\ srcDev' = [srcDev EXCEPT ![l] = Run_src(l)]
    /\ dstDev' = [dstDev EXCEPT ![l] = Run_dst(l)]
    /\ r_pc' = [r_pc EXCEPT ![l] = "read"]
    /\ bufs' = [bufs EXCEPT ![l] = [i \in Slots |-> make(maxPktSize)]]
    /\ blen' = [blen EXCEPT ![l] = [i \in Slots |-> maxPktSize]]
    /\ UNCHANGED <<cfgVars, pktData, fallbackBufs, poolVars, mem, r_usePool,
                   sizes, r_n, r_i, pktBuf, ch, closed, writerVars, histVars>>

\* forwardWithChannel(src, dst, usePool): set or clear the global pool, make
\* the channel, go readToChannel, go writeFromChannel.
Run_forwardWithChannel(l) ==
    /\ useChannel
    /\ run_pc = l
    /\ run_pc' = l + 1
    /\ srcDev' = [srcDev EXCEPT ![l] = Run_src(l)]
    /\ dstDev' = [dstDev EXCEPT ![l] = Run_dst(l)]
    /\ IF Run_usePoolArg(l) /\ ~poolSet
       THEN poolSet' = TRUE /\ poolFree' = [b \in BufId |-> 0]
       ELSE IF ~Run_usePoolArg(l) /\ poolSet
            THEN poolSet' = FALSE /\ poolFree' = [b \in BufId |-> 0]
            ELSE UNCHANGED poolVars
    /\ ch' = [ch EXCEPT ![l] = << >>]
    /\ r_pc' = [r_pc EXCEPT ![l] = "init"]
    /\ w_pc' = [w_pc EXCEPT ![l] = "init"]
    /\ UNCHANGED <<cfgVars, pktData, fallbackBufs, mem, r_usePool, bufs, blen,
                   sizes, r_n, r_i, pktBuf, closed, w_usePool, w_bufs,
                   originalBufs, w_i, histVars>>

\* ---------------------------------------------------------------- forward

\* What forward does with the task after src.Read returned an error.
forward_onReadError(l) == "done"

\* What forward (part_001) does after src.Read returned an error: continue.
forward_v1_onReadError(l) == "read"

\* outBufs[i] = bufs[i][:sizes[i]+offset]
forward_outBuf(buf, size) == Slice(buf, size + offset)

\* dst.Write(outBufs[:n-1], offset): the last packet of the batch is left out.
forward_outBufs_short(l) ==
    [i \in 1..(r_n[l] - 1) |-> forward_outBuf(bufs[l][i], sizes[l][i])]

\* outBufs[:n], the batch handed to dst.Write.
forward_outBufs(l) ==
    [i \in 1..r_n[l] |-> forward_outBuf(bufs[l][i], sizes[l][i])]

\* The n == 0 test is left out: the write is reached with an empty batch.
forward_afterRead_noZeroTest(n) == "write"

\* The position after src.Read returned (n, nil): if n == 0 { continue }.
forward_afterRead(n) == IF n = 0 THEN "read" ELSE "write"

\* A failed write ends the task.
forward_afterWrite_fatal(res) == IF res = "ok" THEN "read" ELSE "done"

\* The position after dst.Write returned: the error is logged, the loop goes on.
forward_afterWrite(res) == "read"

\* bufs[i] = bufs[i][:bufLen] for every i: the lengths passed to src.Read.
forward_reset(resetLen) == [i \in Slots |-> resetLen]

\* One pass of the loop up to the write: reset the slices, src.Read.
forward_Read(l, resetLen, onError) ==
    /\ r_pc[l] = "read"
    /\ LET lens == forward_reset(resetLen) IN
       \/ \* err != nil
          /\ r_pc' = [r_pc EXCEPT ![l] = onError]
          /\ errSeen' = [errSeen EXCEPT ![l] = TRUE]
          /\ ioAfterErr' = [ioAfterErr EXCEPT ![l] = @ \/ errSeen[l]]
          /\ blen' = [blen EXCEPT ![l] = lens]
          /\ UNCHANGED <<bufs, sizes, r_n, readLog>>
       \/ \* (n, nil)
          \E sz \in ReadResults(lens) :
            /\ bufs' = [bufs EXCEPT ![l] = BufsAfterRead(l, sz)]
            /\ blen' = [blen EXCEPT ![l] = LensAfterRead(lens, sz)]
            /\ sizes' = [sizes EXCEPT ![l] = SizesAfterRead(l, sz)]
            /\ r_n' = [r_n EXCEPT ![l] = Len(sz)]
            /\ readLog' = [readLog EXCEPT ![l] = @ \o Returned(l, sz)]
            /\ r_pc' = [r_pc EXCEPT ![l] = forward_afterRead(Len(sz))]
            /\ ioAfterErr' = [ioAfterErr EXCEPT ![l] = @ \/ errSeen[l]]
            /\ UNCHANGED errSeen
    /\ UNCHANGED <<cfgVars, pktData, devVars, fallbackBufs, run_pc, poolVars,
                   mem, r_usePool, r_i, pktBuf, ch, closed, writerVars,
                   handed, tries, deqLog, deqCount, putLog, wFailed>>

\* dst.Write(outBufs[:n], offset); an error is logged and the loop goes on.
forward_Write(l) ==
    /\ r_pc[l] = "write"
    /\ \E res \in WriteOutcomes :
         /\ handed' = [handed EXCEPT ![l] = Append(@, forward_outBufs(l))]
         /\ wFailed' = (res # "ok")
         /\ r_pc' = [r_pc EXCEPT ![l] = forward_afterWrite(res)]
    /\ ioAfterErr' = [ioAfterErr EXCEPT ![l] = @ \/ errSeen[l]]
    /\ UNCHANGED <<cfgVars, pktData, devVars, fallbackBufs, run_pc, poolVars,
                   mem, r_usePool, bufs, blen, sizes, r_n, r_i, pktBuf, ch,
                   closed, writerVars, readLog, errSeen, tries, deqLog,
                   deqCount, putLog>>

forward(l) ==
    /\ mode = "direct"
    /\ \/ forward_Read(l, bufLen, forward_onReadError(l))
       \/ forward_Write(l)

forward_v1(l) ==
    /\ mode = "direct_v1"
    /\ \/ forward_Read(l, bufLen_v1, forward_v1_onReadError(l))
       \/ forward_Write(l)

\* ---------------------------------------------------------------- heap, pool

Allocated == {b \in BufId : mem[b] # << >>}

\* The buffer a make() returns: one no task, queue or pool refers to.  Which
\* one is not observable; lane 1 is given the lowest identity not in use,
\* lane 2 the highest.
NewBufOf(l, used) ==
    CHOOSE b \in BufId \ used :
        \A c \in BufId \ used : IF l = 1 THEN b <= c ELSE b >= c

NewBuf(l) == NewBufOf(l, Allocated)

\* New allocates only what a read buffer needs.
sync_Pool_New_bufLen == make(mtuSize + offset)

\* The pool's New: make([]byte, maxPktSize).
sync_Pool_New == make(maxPktSize)

\* Results of packetBufferPool.Get(): an item stored in the pool, or New().
\* Get "may choose to ignore the pool and treat it as empty" (sync.Pool).
sync_Pool_Get(l) ==
    {b \in BufId : poolFree[b] > 0} \cup
        (IF Allocated = BufId THEN {} ELSE {NewBuf(l)})

\* The items of the pool after Get returned b (New() takes nothing out).
sync_Pool_taken(free, b) ==
    IF free[b] > 0 THEN [free EXCEPT ![b] = @ - 1] ELSE free

\* The items of the pool after Put(b).
sync_Pool_Put(free, b) == [free EXCEPT ![b] = @ + 1]

\* ---------------------------------------------------------------- readToChannel

\* size := sizes[i]: the header offset is left out.
readToChannel_size_bare(sz) == sz

\* size := sizes[i] + offset
readToChannel_size(sz) == sz + offset

\* pktBuf acquired once, before the loop, and reused for every packet: the
\* buffer of the packet sent last, seen here while that packet is queued.
readToChannel_acquire_hoisted(l) ==
    IF ch[l] # << >> THEN {ch[l][Len(ch[l])].buf}
    ELSE IF r_usePool[l] THEN sync_Pool_Get(l) ELSE {NewBuf(l)}

\* Candidates for pktBuf: pool.Get() when pooling, else make(maxPktSize).
readToChannel_acquire(l) ==
    IF r_usePool[l] THEN sync_Pool_Get(l) ELSE {NewBuf(l)}

\* pktBuf = make([]byte, mtuSize): neither the maximum nor the offset.
readToChannel_make_mtu == make(mtuSize)

\* pktBuf = make([]byte, maxPktSize), the branch without the pool.
readToChannel_make == make(maxPktSize)

\* The buffer pktBuf refers to after the acquisition yielded identity b: the
\* item the pool stored, or what New() or make() has just allocated.
readToChannel_acquired(l, b) ==
    IF b \in Allocated THEN mem[b]
    ELSE IF r_usePool[l] THEN sync_Pool_New ELSE readToChannel_make

\* if cap(pktBuf) < size: the fallback is taken.
readToChannel_tooSmall(buf, size) == Len(buf) < size

\* A channel without bound: the send never blocks.
chan_canSend_unbounded(q) == TRUE

\* The channel send can proceed: the buffered channel is not full.
chan_canSend(q) == Len(q) < chanCap

\* The reader closes the channel as it returns (defer close(ch)).
readToChannel_closesOnReturn_deferred(l) == TRUE

\* Whether readToChannel closes the channel as it returns: it does not.
readToChannel_closesOnReturn(l) == FALSE

\* readBufs[i] = make([]byte, mtuSize+offset); usePool := packetBufferPool != nil
readToChannel_init(l) ==
    /\ r_pc[l] = "init"
    /\ bufs' = [bufs EXCEPT ![l] = [i \in Slots |-> make(mtuSize + offset)]]
    /\ blen' = [blen EXCEPT ![l] = [i \in Slots |-> mtuSize + offset]]
    /\ r_usePool' = [r_usePool EXCEPT ![l] = poolSet]
    /\ r_pc' = [r_pc EXCEPT ![l] = "read"]
    /\ UNCHANGED <<cfgVars, pktData, devVars, fallbackBufs, run_pc, poolVars,
                   mem, sizes, r_n, r_i, pktBuf, ch, closed, writerVars,
                   histVars>>

\* The lengths of readBufs as readToChannel passes them to src.Read: the loop
\* does not reslice them, they are as the previous Read left them.
readToChannel_lens(l) == blen[l]

\* n, err := src.Read(readBufs, sizes, offset); return on an error.
readToChannel_Read(l) ==
    /\ useChannel
    /\ r_pc[l] = "read"
    /\ \/ /\ r_pc' = [r_pc EXCEPT ![l] = "done"]
          /\ errSeen' = [errSeen EXCEPT ![l] = TRUE]
          /\ closed' = [closed EXCEPT ![l] = readToChannel_closesOnReturn(l)]
          /\ UNCHANGED <<bufs, blen, sizes, r_n, r_i, readLog>>
       \/ \E sz \in ReadResults(readToChannel_lens(l)) :
            /\ bufs' = [bufs EXCEPT ![l] = BufsAfterRead(l, sz)]
            /\ blen' = [blen EXCEPT ![l] = LensAfterRead(readToChannel_lens(l), sz)]
            /\ sizes' = [sizes EXCEPT ![l] = SizesAfterRead(l, sz)]
            /\ r_n' = [r_n EXCEPT ![l] = Len(sz)]
            /\ r_i' = [r_i EXCEPT ![l] = 0]
            /\ readLog' = [readLog EXCEPT ![l] = @ \o Returned(l, sz)]
            /\ r_pc' = [r_pc EXCEPT ![l] = IF Len(sz) = 0 THEN "read" ELSE "get"]
            /\ UNCHANGED <<errSeen, closed>>
    /\ UNCHANGED <<cfgVars, pktData, devVars, fallbackBufs, run_pc, poolVars,
                   mem, r_usePool, pktBuf, ch, writerVars, handed, ioAfterErr,
                   tries, deqLog, deqCount, putLog, wFailed>>

\* Loop body up to the send: get pktBuf, the fallback when it is too small,
\* copy(pktBuf, readBufs[i][:size]).
readToChannel_Get(l) ==
    /\ r_pc[l] = "get"
    /\ \E b \in readToChannel_acquire(l) :
         LET got  == readToChannel_acquired(l, b)
             size == readToChannel_size(sizes[l][r_i[l] + 1])
             src  == Slice(bufs[l][r_i[l] + 1], size)
         IN  /\ poolFree' = sync_Pool_taken(poolFree, b)
             /\ IF readToChannel_tooSmall(got, size)
                THEN \* Fallback: pktBuf = make([]byte, size); b is dropped.
                     LET nb == NewBufOf(l, Allocated \ {b})
                     IN  /\ mem' = [mem EXCEPT ![b] = << >>,
                                               ![nb] = copy(make(size), src)]
                         /\ pktBuf' = [pktBuf EXCEPT ![l] = nb]
                         /\ fallbackBufs' = (fallbackBufs \ {b}) \cup {nb}
                ELSE /\ mem' = [mem EXCEPT ![b] = copy(got, src)]
                     /\ pktBuf' = [pktBuf EXCEPT ![l] = b]
                     /\ UNCHANGED fallbackBufs
    /\ r_pc' = [r_pc EXCEPT ![l] = "send"]
    /\ UNCHANGED <<cfgVars, pktData, devVars, run_pc, poolSet, r_usePool,
                   bufs, blen, sizes, r_n, r_i, ch, closed, writerVars,
                   histVars>>

\* ch <- packet{buf: pktBuf, size: size}; blocks while the channel is full.
readToChannel_send(l) ==
    /\ r_pc[l] = "send"
    /\ chan_canSend(ch[l])
    /\ ch' = [ch EXCEPT ![l] = Append(@,
                [buf |-> pktBuf[l],
                 size |-> readToChannel_size(sizes[l][r_i[l] + 1])])]
    /\ pktBuf' = [pktBuf EXCEPT ![l] = 0]
    /\ r_i' = [r_i EXCEPT ![l] = @ + 1]
    /\ r_pc' = [r_pc EXCEPT ![l] = IF r_i[l] + 1 < r_n[l] THEN "get" ELSE "read"]
    /\ UNCHANGED <<cfgVars, pktData, devVars, fallbackBufs, run_pc, poolVars,
                   mem, r_usePool, bufs, blen, sizes, r_n, closed, writerVars,
                   histVars>>

readToChannel(l) ==
    \/ readToChannel_init(l)
    \/ readToChannel_Read(l)
    \/ readToChannel_Get(l)
    \/ readToChannel_send(l)

\* ---------------------------------------------------------------- writeFromChannel

\* bufs[n] = pkt.buf: the whole buffer instead of the packet's bytes.
writeFromChannel_slice_whole(pkt) ==
    [buf |-> pkt.buf, len |-> IF pkt.buf = 0 THEN 0 ELSE Len(mem[pkt.buf])]

\* bufs[n] = pkt.buf[:pkt.size]
writeFromChannel_slice(pkt) == [buf |-> pkt.buf, len |-> pkt.size]

\* originalBufs[n] = pkt.buf when pooling (nil, written 0, otherwise).
writeFromChannel_original(pooled, pkt) == IF pooled THEN pkt.buf ELSE 0

\* The collect loop with its bound off by one.
writeFromChannel_more_offByOne(n) == n <= batchSize

\* The collect loop goes on while n < batchSize.
writeFromChannel_more(n) == n < batchSize

\* The buffers are returned to the pool only when the write succeeded.
writeFromChannel_afterWrite_okOnly(pooled, res) ==
    IF pooled /\ res = "ok" THEN "put" ELSE "wait"

\* The writer returns when dst.Write failed.
writeFromChannel_afterWrite_fatal(pooled, res) ==
    IF res = "err" THEN "done" ELSE IF pooled THEN "put" ELSE "wait"

\* The position after dst.Write returned, whatever it returned: the Put loop
\* when pooling, else the next receive.
writeFromChannel_afterWrite(pooled, res) == IF pooled THEN "put" ELSE "wait"

\* The bytes of a slice as dst.Write reads them.
SliceBytes(s) == IF s.buf = 0 THEN << >> ELSE Slice(mem[s.buf], s.len)

\* Every pass of the Put loop returns the first buffer of the batch.
writeFromChannel_putArg_first(l) == originalBufs[l][1]

\* The argument of the Put of the loop pass under way: originalBufs[i].
writeFromChannel_putArg(l) == originalBufs[l][w_i[l] + 1]

\* usePool := packetBufferPool != nil
writeFromChannel_init(l) ==
    /\ w_pc[l] = "init"
    /\ w_usePool' = [w_usePool EXCEPT ![l] = poolSet]
    /\ w_pc' = [w_pc EXCEPT ![l] = "wait"]
    /\ UNCHANGED <<cfgVars, pktData, devVars, fallbackBufs, run_pc, poolVars,
                   mem, readerVars, ch, closed, w_bufs, originalBufs, w_i,
                   histVars>>

\* for pkt := range ch: blocks while the channel is empty and open, ends the
\* loop when it is empty and closed; otherwise the packet becomes bufs[0].
writeFromChannel_recv(l) ==
    /\ w_pc[l] = "wait"
    /\ ch[l] # << >> \/ closed[l]
    /\ IF ch[l] # << >>
       THEN LET pkt == Head(ch[l]) IN
            /\ ch' = [ch EXCEPT ![l] = Tail(@)]
            /\ w_bufs' = [w_bufs EXCEPT ![l] = <<writeFromChannel_slice(pkt)>>]
            /\ originalBufs' = [originalBufs EXCEPT ![l] =
                                  <<writeFromChannel_original(w_usePool[l], pkt)>>]
            /\ deqLog' = [deqLog EXCEPT ![l] = <<pkt>>]
            /\ deqCount' = [deqCount EXCEPT ![l] = @ + 1]
            /\ tries' = [tries EXCEPT ![l] = 0]
            /\ w_pc' = [w_pc EXCEPT ![l] =
                          IF writeFromChannel_more(1) THEN "collect" ELSE "write"]
       ELSE /\ w_pc' = [w_pc EXCEPT ![l] = "done"]
            /\ UNCHANGED <<ch, w_bufs, originalBufs, deqLog, deqCount, tries>>
    /\ UNCHANGED <<cfgVars, pktData, devVars, fallbackBufs, run_pc, poolVars,
                   mem, readerVars, closed, w_usePool, w_i, readLog, handed,
                   errSeen, ioAfterErr, putLog, wFailed>>

\* One pass of the collect loop: select { case pkt := <-ch: ... default: break }.
\* A receive from a closed, empty channel yields the zero packet at once.
writeFromChannel_collect(l) ==
    /\ w_pc[l] = "collect"
    /\ tries' = [tries EXCEPT ![l] = @ + 1]
    /\ IF ch[l] # << >> \/ closed[l]
       THEN LET pkt == IF ch[l] # << >> THEN Head(ch[l])
                                        ELSE [buf |-> 0, size |-> 0]
                n == Len(w_bufs[l]) + 1
            IN
            /\ ch' = [ch EXCEPT ![l] = IF @ # << >> THEN Tail(@) ELSE @]
            /\ w_bufs' = [w_bufs EXCEPT ![l] =
                            Append(@, writeFromChannel_slice(pkt))]
            /\ originalBufs' = [originalBufs EXCEPT ![l] =
                            Append(@, writeFromChannel_original(w_usePool[l], pkt))]
            /\ deqLog' = [deqLog EXCEPT ![l] = Append(@, pkt)]
            /\ deqCount' = [deqCount EXCEPT ![l] = @ + 1]
            /\ w_pc' = [w_pc EXCEPT ![l] =
                          IF writeFromChannel_more(n) THEN "collect" ELSE "write"]
       ELSE /\ w_pc' = [w_pc EXCEPT ![l] = "write"]
            /\ UNCHANGED <<ch, w_bufs, originalBufs, deqLog, deqCount>>
    /\ UNCHANGED <<cfgVars, pktData, devVars, fallbackBufs, run_pc, poolVars,
                   mem, readerVars, closed, w_usePool, w_i, readLog, handed,
                   errSeen, ioAfterErr, putLog, wFailed>>

\* dst.Write(bufs[:n], offset); an error is logged.  Without the pool the
\* loop body ends here (n goes out of scope) and the buffers of the batch are
\* garbage; with the pool the Put loop follows.
writeFromChannel_Write(l) ==
    /\ w_pc[l] = "write"
    /\ \E res \in WriteOutcomes :
         LET next == writeFromChannel_afterWrite(w_usePool[l], res) IN
         /\ handed' = [handed EXCEPT ![l] = Append(@,
                         [i \in 1..Len(w_bufs[l]) |-> SliceBytes(w_bufs[l][i])])]
         /\ wFailed' = (res # "ok")
         /\ w_pc' = [w_pc EXCEPT ![l] = next]
         /\ w_bufs' = [w_bufs EXCEPT ![l] = IF next = "wait" THEN << >> ELSE @]
         /\ originalBufs' = [originalBufs EXCEPT ![l] =
                               IF next = "wait" THEN << >> ELSE @]
    /\ putLog' = [putLog EXCEPT ![l] = << >>]
    /\ tries' = [tries EXCEPT ![l] = 0]
    /\ deqLog' = [deqLog EXCEPT ![l] = << >>]
    /\ LET freed == IF w_usePool[l] THEN {}
                      ELSE {w_bufs[l][i].buf : i \in DOMAIN w_bufs[l]}
       IN  /\ mem' = [b \in BufId |-> IF b \in freed THEN << >> ELSE mem[b]]
           /\ fallbackBufs' = fallbackBufs \ freed
    /\ UNCHANGED <<cfgVars, pktData, devVars, run_pc, poolVars, readerVars,
                   ch, closed, w_usePool, w_i, readLog, errSeen, ioAfterErr,
                   deqCount>>

\* packetBufferPool.Put(originalBufs[i]), one pass of the loop; after the last
\* pass the loop body ends (n goes out of scope).
writeFromChannel_Put(l) ==
    /\ w_pc[l] = "put"
    /\ LET b == writeFromChannel_putArg(l)
           last == ~(w_i[l] + 1 < Len(w_bufs[l]))
       IN
         /\ poolFree' = sync_Pool_Put(poolFree, b)
         /\ putLog' = [putLog EXCEPT ![l] = Append(@, b)]
         /\ w_i' = [w_i EXCEPT ![l] = IF last THEN 0 ELSE @ + 1]
         /\ w_pc' = [w_pc EXCEPT ![l] = IF last THEN "wait" ELSE "put"]
         /\ w_bufs' = [w_bufs EXCEPT ![l] = IF last THEN << >> ELSE @]
         /\ originalBufs' = [originalBufs EXCEPT ![l] = IF last THEN << >> ELSE @]
    /\ UNCHANGED <<cfgVars, pktData, devVars, fallbackBufs, run_pc, poolSet,
                   mem, readerVars, ch, closed, w_usePool, readLog, handed,
                   errSeen, ioAfterErr, tries, deqLog, deqCount, wFailed>>

writeFromChannel(l) ==
    \/ writeFromChannel_init(l)
    \/ writeFromChannel_recv(l)
    \/ writeFromChannel_collect(l)
    \/ writeFromChannel_Write(l)
    \/ writeFromChannel_Put(l)

\* ---------------------------------------------------------------- Spec

Next ==
    \/ \E l \in Lanes : Run_goForward(l)
    \/ \E l \in Lanes : forward(l)
    \/ \E l \in Lanes : forward_v1(l)
    \/ \E l \in Lanes : Run_forwardWithChannel(l)
    \/ \E l \in Lanes : readToChannel(l)
    \/ \E l \in Lanes : writeFromChannel(l)

Spec == Init /\ [][Next]_vars

\* ---------------------------------------------------------------- views

Direct == mode \in {"direct", "direct_v1"}

\* The packets src.Read has returned to lane l, in order.
ReadPackets(l) == [j \in 1..Len(readLog[l]) |-> PacketOf(readLog[l][j])]

\* The buffers passed to dst.Write by lane l, over all calls, in order.
Written(l) == Flatten(handed[l])

\* The bytes of slot i of the read buffers, as a packet.
SlotPacket(l, i) == Slice(bufs[l][i], sizes[l][i] + offset)

\* forward: the batch read and not yet written.
DirectPending(l) ==
    IF Direct /\ r_pc[l] = "write"
    THEN [i \in 1..r_n[l] |-> SlotPacket(l, i)] ELSE << >>

\* readToChannel: the packets of the last Read not yet enqueued; the first of
\* them is in pktBuf once the task is at the send.
ReaderPending(l) ==
    IF useChannel /\ r_pc[l] \in {"get", "send"}
    THEN [j \in 1..(r_n[l] - r_i[l]) |->
            IF j = 1 /\ r_pc[l] = "send"
            THEN Slice(mem[pktBuf[l]], readToChannel_size(sizes[l][r_i[l] + 1]))
            ELSE SlotPacket(l, r_i[l] + j)]
    ELSE << >>

\* The packets in the channel, oldest first.
Queued(l) == [j \in 1..Len(ch[l]) |-> Slice(mem[ch[l][j].buf], ch[l][j].size)]

\* writeFromChannel: the batch being assembled or about to be written.
WriterBatch(l) ==
    IF w_pc[l] \in {"collect", "write"}
    THEN [j \in 1..Len(w_bufs[l]) |-> SliceBytes(w_bufs[l][j])] ELSE << >>

\* Everything read and not yet passed to dst.Write, oldest first.
InFlight(l) ==
    WriterBatch(l) \o Queued(l) \o ReaderPending(l) \o DirectPending(l)

\* Lane l has nothing in flight and its tasks are at the top of their loops.
Quiet(l) ==
    /\ InFlight(l) = << >>
    /\ r_pc[l] \in {"read", "done"}
    /\ useChannel => w_pc[l] = "wait"

\* ---------------------------------------------------------------- claims

\* C1: within one lane the packets handed to dst.Write, concatenated over all
\* calls, are the packets returned by src.Read in the same order: the written
\* sequence is a prefix of the read sequence and the rest, no more and no
\* less, is still in flight; nothing is dropped, duplicated or reordered.
C1_OrderPreserved ==
    \A l \in Lanes :
        /\ IsPrefix(Written(l), ReadPackets(l))
        /\ Len(Written(l)) + Len(InFlight(l)) = Len(readLog[l])
        /\ Quiet(l) => Written(l) = ReadPackets(l)

\* C1 witness: a channel lane has written two packets in one call.
C1_Witness ==
    \E l \in Lanes :
        /\ useChannel /\ Quiet(l)
        /\ Len(readLog[l]) = 2
        /\ Len(handed[l]) = 1
        /\ Written(l) = ReadPackets(l)

\* C2: every buffer between its read and its write, and every buffer passed
\* to dst.Write, holds exactly the bytes [0, size+offset) of one packet as
\* src.Read returned it: the buffers in flight are, position by position, the
\* packets read and not yet written.
C2_NoCrossContamination ==
    \A l \in Lanes :
        useChannel =>
            /\ InFlight(l) =
                 SubSeq(ReadPackets(l), Len(Written(l)) + 1, Len(readLog[l]))
            /\ \A j \in 1..Len(Written(l)) : Written(l)[j] = ReadPackets(l)[j]

\* C2 witness: a pooled buffer that carried a longer packet before is in the
\* channel with a shorter one while the reader has refilled its read buffers.
C2_Witness ==
    \E l \in Lanes :
        /\ useChannel /\ r_usePool[l]
        /\ Len(ch[l]) = 1
        /\ Len(handed[l]) = 1
        /\ Len(readLog[l]) = 2
        /\ readLog[l][1].size = 2 /\ readLog[l][2].size = 1
        /\ mem[ch[l][1].buf][3] = Written(l)[1][3]

\* The buffers live packets refer to: held by a reader between Get and send,
\* in a channel, or in a writer's batch whose Write has not returned.
LiveRefs(l) ==
    (IF r_pc[l] = "send" THEN <<pktBuf[l]>> ELSE << >>) \o
    [j \in 1..Len(ch[l]) |-> ch[l][j].buf] \o
    (IF w_pc[l] \in {"collect", "write"}
     THEN [j \in 1..Len(w_bufs[l]) |-> w_bufs[l][j].buf] ELSE << >>)

AllLiveRefs == LiveRefs(1) \o LiveRefs(2)

\* C3: with the pool shared by both lanes, no buffer is referred to by two
\* live packets, and a buffer a live packet refers to is not in the pool.
C3_NoAliasing ==
    poolSet =>
        /\ \A i, j \in DOMAIN AllLiveRefs :
              i # j => AllLiveRefs[i] # AllLiveRefs[j]
        /\ \A i \in DOMAIN AllLiveRefs :
              /\ AllLiveRefs[i] \in Allocated
              /\ poolFree[AllLiveRefs[i]] = 0
        /\ \A b \in BufId : poolFree[b] <= 1

\* C3 witness: a buffer one lane's writer returned to the shared pool has been
\* handed out again and is in the other lane's batch, whose Write has not
\* returned.
C3_Witness ==
    /\ poolSet
    /\ \E l, k \in Lanes :
          /\ l # k
          /\ w_pc[k] = "write"
          /\ w_bufs[k][1].buf \in Range(putLog[l])
          /\ poolFree[w_bufs[k][1].buf] = 0

\* C4: the channel never holds more than chanCap packets; a reader at its send
\* with the channel full cannot complete the send (it blocks), keeps the
\* packet it is sending unchanged, and can go on only once the writer has
\* received a packet.
C4_Backpressure ==
    \A l \in Lanes :
        /\ Len(ch[l]) <= chanCap
        /\ (r_pc[l] = "send" /\ Len(ch[l]) = chanCap) =>
              /\ ~ENABLED readToChannel_send(l)
              /\ ReaderPending(l)[1] =
                   ReadPackets(l)[Len(readLog[l]) - Len(ReaderPending(l)) + 1]
        /\ (r_pc[l] = "send" /\ Len(ch[l]) < chanCap) =>
              ENABLED readToChannel_send(l)

\* C4 witness: the channel is full, the writer is not receiving and the
\* reader is blocked sending packet chanCap + 1.
C4_Witness ==
    \E l \in Lanes :
        /\ r_pc[l] = "send"
        /\ Len(ch[l]) = chanCap
        /\ w_pc[l] \in {"init", "wait"}
        /\ Len(readLog[l]) = chanCap + 1

\* What forward would pass to dst.Write for the Read results of lane l.
DirectOutput(l) ==
    [j \in 1..Len(readLog[l]) |->
        forward_outBuf(readLog[l][j].buf, readLog[l][j].size)]

\* C5: whatever the strategy of the run (direct, channel without pool,
\* channel with pool), the packets written are those the direct forwarder
\* writes for the same Read results, in the same order: a prefix of them at
\* any time and all of them once the lane is quiet.
C5_StrategiesAgree ==
    \A l \in Lanes :
        /\ IsPrefix(Written(l), DirectOutput(l))
        /\ Quiet(l) => Written(l) = DirectOutput(l)

\* C5 witness: a pooled channel lane has written, in two calls, the two
\* packets one Read returned, which forward writes in one call.
C5_Witness ==
    \E l \in Lanes :
        /\ useChannel /\ r_usePool[l] /\ w_usePool[l]
        /\ Quiet(l)
        /\ r_n[l] = 2
        /\ Len(handed[l]) = 2
        /\ Written(l) = DirectOutput(l)

\* C6: in the direct forwarding loops no device call is issued by a task
\* after its src.Read has returned an error.
C6_ReadErrorIsTerminal ==
    \A l \in Lanes : Direct => ~ioAfterErr[l]

\* C7: a failed dst.Write stops no task: in every state, those after failed
\* writes included, a forward task or a reader is done only after a read
\* error, a writer is never done, every packet read is written or still in
\* flight, and a quiet lane has written all it read.
C7_WriteErrorNotFatal ==
    \A l \in Lanes :
        /\ r_pc[l] = "done" => errSeen[l]
        /\ w_pc[l] # "done"
        /\ Len(Written(l)) + Len(InFlight(l)) = Len(readLog[l])
        /\ Quiet(l) => Written(l) = ReadPackets(l)
        /\ (wFailed /\ Direct /\ ~errSeen[l]) => r_pc[l] \in {"off", "read", "write"}

\* C7 witness: a direct lane's write failed and the batch read after it is
\* at dst.Write.
C7_Witness ==
    \E l \in Lanes :
        /\ Direct
        /\ wFailed
        /\ r_pc[l] = "write"
        /\ Len(handed[l]) = 1
        /\ \A k \in Lanes \ {l} : handed[k] = << >>

\* C8: a reader is done only after a read error; the channel is never closed
\* and the writer is never done; while anything is queued or held the writer
\* can take a step; with the reader done, the channel empty and the writer at
\* its blocking receive, everything read has been written and the writer has
\* no step left.
C8_ReaderStopsWriterBlocks ==
    \A l \in Lanes :
        useChannel =>
            /\ r_pc[l] = "done" => errSeen[l]
            /\ ~closed[l]
            /\ w_pc[l] # "done"
            /\ (w_pc[l] # "off" /\ (ch[l] # << >> \/ w_pc[l] # "wait")) =>
                  ENABLED writeFromChannel(l)
            /\ (r_pc[l] = "done" /\ ch[l] = << >> /\ w_pc[l] = "wait") =>
                  /\ ~ENABLED writeFromChannel(l)
                  /\ ~ENABLED readToChannel(l)
                  /\ Written(l) = ReadPackets(l)

\* C8 witness: the reader stopped on a read error, the writer has written
\* the two packets read before it and is blocked on the empty channel.
C8_Witness ==
    \E l \in Lanes :
        /\ useChannel
        /\ r_pc[l] = "done" /\ ch[l] = << >> /\ w_pc[l] = "wait"
        /\ Len(Written(l)) = 2

\* The packets received for the current batch, as slices.
Received(l) ==
    [j \in 1..Len(deqLog[l]) |-> writeFromChannel_slice(deqLog[l][j])]

\* C9: holding n packets the writer never blocks; collecting, every
\* non-blocking receive so far succeeded; at the write the batch has
\* 1..batchSize packets after at most batchSize-1 non-blocking receives, of
\* which only the last may have found the channel empty; the batch is the
\* packets received for it, in receive order, and each packet received is in
\* exactly one batch.
C9_OpportunisticDrain ==
    \A l \in Lanes :
        useChannel =>
            LET n == Len(w_bufs[l]) IN
            /\ w_pc[l] = "collect" => n >= 1 /\ n < batchSize /\ tries[l] = n - 1
            /\ w_pc[l] = "write" =>
                  /\ n >= 1 /\ n <= batchSize
                  /\ tries[l] <= batchSize - 1
                  /\ \/ tries[l] = n - 1 /\ n = batchSize
                     \/ tries[l] = n /\ n < batchSize
            /\ w_pc[l] \in {"collect", "write"} =>
                  /\ w_bufs[l] = Received(l)
                  /\ ENABLED writeFromChannel(l)
            /\ Len(Written(l)) + Len(WriterBatch(l)) = deqCount[l]
            /\ \A j \in DOMAIN handed[l] :
                  Len(handed[l][j]) >= 1 /\ Len(handed[l][j]) <= batchSize
            /\ (w_pc[l] = "wait" /\ ch[l] = << >>) => ~ENABLED writeFromChannel(l)

\* C9 witness: the drain stopped at an empty channel with one packet; another
\* packet has arrived since and the writer is at the write, not waiting for it.
C9_Witness ==
    \E l \in Lanes :
        /\ w_pc[l] = "write"
        /\ Len(w_bufs[l]) = 1
        /\ tries[l] = 1
        /\ Len(ch[l]) = 1

\* C10: in the Put loop a pooling writer has Put the first i buffers of the
\* batch it wrote; back at its blocking receive it has Put as many buffers as
\* that batch held, each once, whatever dst.Write returned; a writer that is
\* not pooling Puts nothing and the pool holds nothing.
C10_ReleaseAfterWrite ==
    \A l \in Lanes :
        useChannel =>
            /\ w_pc[l] = "put" =>
                  /\ w_usePool[l]
                  /\ w_i[l] < Len(w_bufs[l])
                  /\ putLog[l] = [j \in 1..w_i[l] |-> w_bufs[l][j].buf]
            /\ (w_pc[l] = "wait" /\ handed[l] # << >>) =>
                  /\ Len(putLog[l]) =
                       (IF w_usePool[l] THEN Len(handed[l][Len(handed[l])]) ELSE 0)
                  /\ \A i, j \in DOMAIN putLog[l] :
                        i # j => putLog[l][i] # putLog[l][j]
            /\ ~w_usePool[l] => putLog[l] = << >>
            /\ ~poolSet => \A b \in BufId : poolFree[b] = 0

\* C10 witness: dst.Write failed on a batch of two and the pooling writer is
\* back at its receive with both buffers Put.
C10_Witness ==
    \E l \in Lanes :
        /\ w_usePool[l]
        /\ w_pc[l] = "wait"
        /\ wFailed
        /\ Len(putLog[l]) = 2
        /\ \A k \in Lanes \ {l} : handed[k] = << >>

\* The two devices: tun11 (1) and tun22 (2).
Devices == 1..2

\* The lanes with a task inside src.Read on device d.
InRead(d) == {l \in Lanes : srcDev[l] = d /\ r_pc[l] = "read"}

\* The lanes with a task inside dst.Write on device d.
InWrite(d) ==
    {l \in Lanes : /\ dstDev[l] = d
                   /\ \/ Direct /\ r_pc[l] = "write"
                      \/ w_pc[l] = "write"}

\* C11: every device has at most one task inside Read and at most one task
\* inside Write at any time; the tasks of two lanes never share a source or a
\* destination device, and a lane's source is not its destination.
C11_OneReaderOneWriter ==
    /\ \A d \in Devices :
          Cardinality(InRead(d)) <= 1 /\ Cardinality(InWrite(d)) <= 1
    /\ \A l, k \in Lanes :
          (l # k /\ srcDev[l] # 0 /\ srcDev[k] # 0) =>
              srcDev[l] # srcDev[k] /\ dstDev[l] # dstDev[k]
    /\ \A l \in Lanes : srcDev[l] # 0 => srcDev[l] # dstDev[l]

\* C11 witness: both devices are being read and both are being written, each
\* by one task.
C11_Witness ==
    /\ useChannel
    /\ \A d \in Devices :
          Cardinality(InRead(d)) = 1 /\ Cardinality(InWrite(d)) = 1

\* C12: in forward a Read is issued only when every packet read so far has
\* been passed to dst.Write; at the write the batch is the n > 0 packets of
\* the latest Read and nothing else is in flight; no Write is issued for a
\* Read that returned 0 packets.
C12_OneBatchInFlight ==
    \A l \in Lanes :
        Direct =>
            /\ r_pc[l] = "read" => Written(l) = ReadPackets(l)
            /\ r_pc[l] = "write" =>
                  /\ r_n[l] > 0
                  /\ Len(Written(l)) + r_n[l] = Len(readLog[l])
                  /\ forward_outBufs(l) =
                       SubSeq(ReadPackets(l), Len(Written(l)) + 1, Len(readLog[l]))
            /\ \A j \in DOMAIN handed[l] : Len(handed[l][j]) > 0

\* C12 witness: after a batch was written a Read returned 0 packets and the
\* task is at the next Read, no Write in between.
C12_Witness ==
    \E l \in Lanes :
        /\ Direct
        /\ r_pc[l] = "read"
        /\ r_n[l] = 0
        /\ Len(handed[l]) = 1
        /\ Written(l) = ReadPackets(l)

\* ---------------------------------------------------------------- stale pool

\* The capacity of a buffer left in the pool by an earlier configuration:
\* room for the offset and one byte, less than a full packet needs.
staleCap == offset + 1

\* The state the check "cap(pktBuf) < size" of readToChannel is written for:
\* packetBufferPool is set before Run and holds one buffer of capacity
\* staleCap.  No call of this package produces that state; it is the input of
\* the fallback path, which the runs of Spec never take.
InitStalePool ==
    /\ mode = "channel"
    /\ useChannel = TRUE
    /\ usePool = TRUE
    /\ poolSet = TRUE
    /\ poolFree = [b \in BufId |-> IF b = 1 THEN 1 ELSE 0]
    /\ mem = [b \in BufId |-> IF b = 1 THEN make(staleCap) ELSE << >>]
    /\ InitTasks

\* The steps of the channel strategy.
NextChannel ==
    \/ \E l \in Lanes : Run_forwardWithChannel(l)
    \/ \E l \in Lanes : readToChannel(l)
    \/ \E l \in Lanes : writeFromChannel(l)

SpecStalePool == InitStalePool /\ [][NextChannel]_vars

TaskStarted == \E l \in Lanes : r_pc[l] # "off" \/ w_pc[l] # "off"

\* C14: in the channel strategy, once a task has been started the pool
\* reference is set exactly when Run was given usePool, and stays so; every
\* reader and writer that has taken its local usePool has taken that value.
C14_PoolDecidedOnce ==
    useChannel =>
        /\ TaskStarted => poolSet = usePool
        /\ \A l \in Lanes :
              /\ r_pc[l] \notin {"off", "init"} => r_usePool[l] = usePool
              /\ w_pc[l] \notin {"off", "init"} => w_usePool[l] = usePool

\* C14 witness: pooling is on, all four tasks have taken the flag, and the
\* pool holds a buffer a writer returned.
C14_Witness ==
    /\ usePool /\ poolSet
    /\ run_pc = 3
    /\ \A l \in Lanes : r_usePool[l] /\ w_usePool[l]
    /\ r_pc[2] = "read" /\ w_pc[2] = "wait"
    /\ \E b \in BufId : poolFree[b] > 0

\* The lengths of the slices the task of lane l passes to its next src.Read.
LensAtRead(l) ==
    IF useChannel THEN readToChannel_lens(l)
    ELSE forward_reset(IF mode = "direct" THEN bufLen ELSE bufLen_v1)

\* C15: whenever forward or readToChannel (part_000) is about to call
\* src.Read, every slice it passes has length mtuSize + offset.
C15_FullLengthAtRead ==
    \A l \in Lanes :
        (mode # "direct_v1" /\ r_pc[l] = "read") =>
            \A i \in Slots : LensAtRead(l)[i] = mtuSize + offset

\* C16: every buffer stored in the pool has capacity maxPktSize, and so has
\* every buffer a pooling reader can be given by Get, stored or new.
C16_PoolCapacity ==
    poolSet =>
        /\ \A b \in BufId : poolFree[b] > 0 => Len(mem[b]) = maxPktSize
        /\ \A l \in Lanes :
              (r_pc[l] = "get" /\ r_usePool[l]) =>
                  \A b \in readToChannel_acquire(l) :
                      Len(readToChannel_acquired(l, b)) = maxPktSize

\* C16 witness: a pooling reader is at its Get while the pool stores a buffer
\* a writer has returned.
C16_Witness ==
    \E l \in Lanes :
        /\ r_pc[l] = "get" /\ r_usePool[l]
        /\ \E b \in BufId : poolFree[b] > 0 /\ b \in Range(putLog[3 - l])

\* The buffers obtained from the pool and not returned to it.
CheckedOut == {b \in Allocated : poolFree[b] = 0}

\* Buffers lane l holds: the reader's pktBuf at the send, the packets in the
\* channel, the writer's batch less what the Put loop has returned.
HeldCount(l) ==
    (IF r_pc[l] = "send" THEN 1 ELSE 0) + Len(ch[l]) +
    (IF w_pc[l] \in {"collect", "write"} THEN Len(w_bufs[l])
     ELSE IF w_pc[l] = "put" THEN Len(w_bufs[l]) - w_i[l] ELSE 0)

\* C17: with the pool set (no fallback is taken in these runs), no buffer is
\* in the pool twice, and the buffers checked out are as many as the readers
\* hold, the channels hold and the writers' batches still hold.
C17_ReleasedOncePerCheckout ==
    poolSet =>
        /\ fallbackBufs = {}
        /\ \A b \in BufId : poolFree[b] <= 1
        /\ Cardinality(CheckedOut) = HeldCount(1) + HeldCount(2)

\* C17 witness: a writer is halfway through the Put loop of a batch of two:
\* one buffer is back in the pool, the other still checked out.
C17_Witness ==
    \E l \in Lanes :
        /\ w_pc[l] = "put" /\ w_i[l] = 1 /\ Len(w_bufs[l]) = 2
        /\ poolFree[originalBufs[l][1]] = 1
        /\ originalBufs[l][2] \in CheckedOut

\* C18: in readToChannel the test cap(pktBuf) < size never succeeds: every
\* size is at most mtuSize + offset, below maxPktSize, and every buffer the
\* acquisition can yield, from the pool or newly made, has at least that
\* capacity; no buffer made by the fallback exists.
C18_FallbackUnreachable ==
    /\ mtuSize + offset < maxPktSize
    /\ fallbackBufs = {}
    /\ \A l \in Lanes :
          (useChannel /\ r_pc[l] = "get") =>
              LET size == readToChannel_size(sizes[l][r_i[l] + 1]) IN
              /\ size <= mtuSize + offset
              /\ \A b \in readToChannel_acquire(l) :
                    ~readToChannel_tooSmall(readToChannel_acquired(l, b), size)

\* C18 witness: a pooling reader is about to make the test for a packet of
\* the largest size, with a buffer the pool stores among those Get can yield.
C18_Witness ==
    \E l \in Lanes :
        /\ useChannel /\ r_pc[l] = "get"
        /\ readToChannel_size(sizes[l][r_i[l] + 1]) = mtuSize + offset
        /\ r_usePool[l]
        /\ \E b \in readToChannel_acquire(l) : poolFree[b] > 0

\* ---------------------------------------------------------------- fairness

InitChannel == Init /\ mode = "channel"

\* The Go scheduler runs every goroutine that can run: a task that is not
\* blocked in src.Read, on a full channel or on an empty channel takes its
\* next step; dst.Write returns.  Nothing is assumed of src.Read, which may
\* block for ever.
Fairness ==
    \A l \in Lanes :
        /\ WF_vars(Run_forwardWithChannel(l))
        /\ WF_vars(readToChannel_init(l))
        /\ WF_vars(readToChannel_Get(l))
        /\ WF_vars(readToChannel_send(l))
        /\ WF_vars(writeFromChannel(l))

SpecFair == InitChannel /\ [][NextChannel]_vars /\ Fairness

\* The packets lane l's reader has sent into the channel so far.
EnqCount(l) == Len(Written(l)) + Len(WriterBatch(l)) + Len(ch[l])

\* C19: under the fairness above, for every k, from some time on the k-th
\* packet sent into a channel, if sent at all, has been passed to dst.Write
\* (no packet stays in the channel for ever, whether or not the reader has
\* stopped); and no reader stays for ever at its send with the channel full.
C19_EventuallyWritten ==
    \A l \in Lanes :
        \A k \in 1..MaxPkts :
            /\ <>[](EnqCount(l) >= k => Len(Written(l)) >= k)
            /\ <>[]~(r_pc[l] = "send" /\ Len(ch[l]) = chanCap /\ EnqCount(l) = k)

\* C19 witness: the reader has stopped on a read error while a packet it sent
\* is still in the channel and the writer has not yet received it.
C19_Witness ==
    \E l \in Lanes :
        /\ r_pc[l] = "done"
        /\ Len(ch[l]) = chanCap
        /\ w_pc[l] = "wait"
        /\ Len(Written(l)) = 1

\* ---------------------------------------------------------------- normal_tun

\* Bound of the model: packets the two interfaces return in a run of the
\* normal_tun pipeline.
MaxReads == 4

\* make(chan packet, 2048) of normal_tun, scaled.
normal_chanCap == 1

\* make([]byte, 65536), scaled: one more than the largest packet.
normal_bufLen == maxIPSize + 1

\* The bytes of buffer after iface.Read returned n: the k-th packet of lane l.
iface_Read(buf, l, k, n) ==
    [p \in 1..Len(buf) |-> IF p <= n THEN Token(l, k, p - 1) ELSE buf[p]]

\* normal_tun.Run(true): the strategy is the unbatched channel pipeline.
InitNormal ==
    /\ mode = "normal"
    /\ useChannel = TRUE
    /\ usePool = FALSE
    /\ poolSet = FALSE
    /\ poolFree = [b \in BufId |-> 0]
    /\ mem = [b \in BufId |-> << >>]
    /\ InitTasks

\* forwardWithChannel(src, dst) of normal_tun: make the channel,
\* go readFromTun, go writeToTun.
normal_forwardWithChannel(l) ==
    /\ mode = "normal"
    /\ run_pc = l
    /\ run_pc' = l + 1
    /\ srcDev' = [srcDev EXCEPT ![l] = Run_src(l)]
    /\ dstDev' = [dstDev EXCEPT ![l] = Run_dst(l)]
    /\ ch' = [ch EXCEPT ![l] = << >>]
    /\ r_pc' = [r_pc EXCEPT ![l] = "init"]
    /\ w_pc' = [w_pc EXCEPT ![l] = "wait"]
    /\ UNCHANGED <<cfgVars, pktData, fallbackBufs, poolVars, mem, r_usePool,
                   bufs, blen, sizes, r_n, r_i, pktBuf, closed, w_usePool,
                   w_bufs, originalBufs, w_i, histVars>>

\* The channel is left open when the reader returns.
readFromTun_closesOnReturn_never(l) == FALSE

\* defer close(ch): the channel is closed as readFromTun returns.
readFromTun_closesOnReturn(l) == TRUE

\* The writer logs the error and goes on with the next packet.
writeToTun_afterWrite_continue(res) == "wait"

\* The position of writeToTun after iface.Write: return on an error.
writeToTun_afterWrite(res) == IF res = "err" THEN "failed" ELSE "wait"

\* The send into normal_tun's channel can proceed: it is not full.
normal_chan_canSend(q) == Len(q) < normal_chanCap

\* buffer := make([]byte, 65536)
readFromTun_init(l) ==
    /\ mode = "normal"
    /\ r_pc[l] = "init"
    /\ bufs' = [bufs EXCEPT ![l] =
                  [i \in Slots |-> IF i = 1 THEN make(normal_bufLen) ELSE << >>]]
    /\ r_pc' = [r_pc EXCEPT ![l] = "read"]
    /\ UNCHANGED <<cfgVars, pktData, devVars, fallbackBufs, run_pc, poolVars,
                   mem, r_usePool, blen, sizes, r_n, r_i, pktBuf, ch, closed,
                   writerVars, histVars>>

\* n, err := iface.Read(buffer); on an error return (and close the channel);
\* else pktData := make([]byte, n); copy(pktData, buffer[:n]).
readFromTun_Read(l) ==
    /\ mode = "normal"
    /\ r_pc[l] = "read"
    /\ \/ /\ r_pc' = [r_pc EXCEPT ![l] = "done"]
          /\ errSeen' = [errSeen EXCEPT ![l] = TRUE]
          /\ closed' = [closed EXCEPT ![l] = readFromTun_closesOnReturn(l)]
          /\ UNCHANGED <<bufs, pktData, readLog>>
       \/ /\ TotalRead < MaxReads
          /\ \E n \in 1..mtuSize :
               LET buffer == iface_Read(bufs[l][1], l, Len(readLog[l]) + 1, n) IN
               /\ bufs' = [bufs EXCEPT ![l][1] = buffer]
               /\ pktData' = [pktData EXCEPT ![l] =
                                copy(make(n), Slice(buffer, n))]
               /\ readLog' = [readLog EXCEPT ![l] =
                                Append(@, [buf |-> buffer, size |-> n])]
          /\ r_pc' = [r_pc EXCEPT ![l] = "send"]
          /\ UNCHANGED <<errSeen, closed>>
    /\ UNCHANGED <<cfgVars, devVars, fallbackBufs, run_pc, poolVars, mem,
                   r_usePool, blen, sizes, r_n, r_i, pktBuf, ch, writerVars,
                   handed, ioAfterErr, tries, deqLog, deqCount, putLog, wFailed>>

\* ch <- packet{data: pktData}; blocks while the channel is full.
readFromTun_send(l) ==
    /\ mode = "normal"
    /\ r_pc[l] = "send"
    /\ normal_chan_canSend(ch[l])
    /\ ch' = [ch EXCEPT ![l] = Append(@, [data |-> pktData[l]])]
    /\ pktData' = [pktData EXCEPT ![l] = << >>]
    /\ r_pc' = [r_pc EXCEPT ![l] = "read"]
    /\ UNCHANGED <<cfgVars, devVars, fallbackBufs, run_pc, poolVars, mem,
                   r_usePool, bufs, blen, sizes, r_n, r_i, pktBuf, closed,
                   writerVars, histVars>>

readFromTun(l) ==
    \/ readFromTun_init(l)
    \/ readFromTun_Read(l)
    \/ readFromTun_send(l)

\* for pkt := range ch: blocks while the channel is empty and open; the loop
\* ends, and the function after it, when the channel is empty and closed.
writeToTun_recv(l) ==
    /\ mode = "normal"
    /\ w_pc[l] = "wait"
    /\ ch[l] # << >> \/ closed[l]
    /\ IF ch[l] # << >>
       THEN /\ ch' = [ch EXCEPT ![l] = Tail(@)]
            /\ w_bufs' = [w_bufs EXCEPT ![l] = <<Head(ch[l])>>]
            /\ w_pc' = [w_pc EXCEPT ![l] = "write"]
       ELSE /\ w_pc' = [w_pc EXCEPT ![l] = "done"]
            /\ UNCHANGED <<ch, w_bufs>>
    /\ UNCHANGED <<cfgVars, pktData, devVars, fallbackBufs, run_pc, poolVars,
                   mem, readerVars, closed, w_usePool, originalBufs, w_i,
                   histVars>>

\* _, err := iface.Write(pkt.data); return on an error.
writeToTun_Write(l) ==
    /\ mode = "normal"
    /\ w_pc[l] = "write"
    /\ \E res \in WriteOutcomes :
         /\ handed' = [handed EXCEPT ![l] = Append(@, <<w_bufs[l][1].data>>)]
         /\ wFailed' = (res = "err")  \* here: err != nil
         /\ w_pc' = [w_pc EXCEPT ![l] = writeToTun_afterWrite(res)]
    /\ w_bufs' = [w_bufs EXCEPT ![l] = << >>]
    /\ UNCHANGED <<cfgVars, pktData, devVars, fallbackBufs, run_pc, poolVars,
                   mem, readerVars, ch, closed, w_usePool, originalBufs, w_i,
                   readLog, errSeen, ioAfterErr, tries, deqLog, deqCount, putLog>>

writeToTun(l) ==
    \/ writeToTun_recv(l)
    \/ writeToTun_Write(l)

NextNormal ==
    \/ \E l \in Lanes : normal_forwardWithChannel(l)
    \/ \E l \in Lanes : readFromTun(l)
    \/ \E l \in Lanes : writeToTun(l)

SpecNormal == InitNormal /\ [][NextNormal]_vars

\* The packets iface.Read has returned to lane l's readFromTun, in order.
NormalRead(l) ==
    [j \in 1..Len(readLog[l]) |-> Slice(readLog[l][j].buf, readLog[l][j].size)]

\* The packets of lane l read and not yet passed to iface.Write: the one the
\* writer holds, those in the channel, the one the reader is sending.
NormalInFlight(l) ==
    (IF w_pc[l] = "write" THEN <<w_bufs[l][1].data>> ELSE << >>) \o
    [j \in 1..Len(ch[l]) |-> ch[l][j].data] \o
    (IF r_pc[l] = "send" THEN <<pktData[l]>> ELSE << >>)

\* C20: in normal_tun's channel pipeline the channel is closed exactly when
\* the reader has returned, which it does only on a read error; a writer that
\* has not failed then still has a step until it has written all that was
\* queued, and ends only with the channel closed and empty and every packet
\* read written.  A writer that returned on a write error never takes another
\* step and does not close the channel: the packets in the channel stay
\* there, the reader can still read and send while the channel has room, and
\* at its send with the channel full it has no step left.  When the latest
\* iface.Write of the run returned an error, its writer has returned.
C20_NormalPipelineShutdown ==
    /\ wFailed => \E l \in Lanes : w_pc[l] = "failed"
    /\ \A l \in Lanes :
        /\ closed[l] <=> r_pc[l] = "done"
        /\ r_pc[l] = "done" => errSeen[l]
        /\ Len(ch[l]) <= normal_chanCap
        /\ Written(l) \o NormalInFlight(l) = NormalRead(l)
        /\ (closed[l] /\ w_pc[l] \in {"wait", "write"}) => ENABLED writeToTun(l)
        /\ w_pc[l] = "done" =>
              closed[l] /\ ch[l] = << >> /\ Written(l) = NormalRead(l)
        /\ w_pc[l] = "failed" =>
              /\ handed[l] # << >>
              /\ ~ENABLED writeToTun(l)
              /\ r_pc[l] = "read" => ENABLED readFromTun(l)
              /\ (r_pc[l] = "send" /\ Len(ch[l]) < normal_chanCap) =>
                    ENABLED readFromTun_send(l)
              /\ (r_pc[l] = "send" /\ Len(ch[l]) = normal_chanCap) =>
                    ~ENABLED readFromTun(l) /\ ~closed[l]

\* C20 witness: in one lane the writer returned on a write error, the channel
\* is open and full of a packet never written and the reader is blocked
\* sending the next; in the other the reader closed the channel on a read
\* error and the writer has written the packet left in it and ended.
C20_Witness ==
    \E l \in Lanes :
        /\ w_pc[l] = "failed"
        /\ r_pc[l] = "send" /\ Len(ch[l]) = normal_chanCap /\ ~closed[l]
        /\ Len(Written(l)) = 1 /\ Len(readLog[l]) = 3
        /\ w_pc[3 - l] = "done" /\ closed[3 - l]
        /\ Len(Written(3 - l)) = 1

====
